---- MODULE Spec2Model ----
(***************************************************************************)
(* Task Management API (task-management-api/main.py): a FastAPI            *)
(* application with three GET routes.  A request travels through the       *)
(* router, the parameter binding declared by the handler signatures, and   *)
(* the handler body.  Text is modelled as sequences of one-character       *)
(* strings so that parsing, formatting and URL decoding are computed.      *)
(***************************************************************************)
EXTENDS Integers, Sequences, FiniteSets, TLC

(* ------------------------------ bounds -------------------------------- *)

\* longest literal placed after /tasks/ that is enumerated exhaustively
MaxLitLen == 3
\* integers -MaxInt..MaxInt are used as task ids, limits and offsets
MaxInt == 10
\* longest raw q literal that is enumerated exhaustively
MaxQLen == 3
\* number of responses a behaviour sends before the clients stop
MaxServed == 2

(* --------------------------- text helpers ----------------------------- *)

DigitChars == <<"0", "1", "2", "3", "4", "5", "6", "7", "8", "9">>

IsDigit(c) == \E i \in 1..10 : DigitChars[i] = c

DigitVal(c) == (CHOOSE i \in 1..10 : DigitChars[i] = c) - 1

IsSpace(c) == c = " "

Front(s) == SubSeq(s, 1, Len(s) - 1)

Drop(s, k) == SubSeq(s, k + 1, Len(s))

HasPrefix(s, p) == Len(s) >= Len(p) /\ SubSeq(s, 1, Len(p)) = p

\* Python's `sub in s`
Contains(s, sub) ==
    \E i \in 1..(Len(s) - Len(sub) + 1) : SubSeq(s, i, i + Len(sub) - 1) = sub

HasChar(s, c) == \E i \in 1..Len(s) : s[i] = c

\* index of the first occurrence of c in s, 0 when there is none
IndexOf(s, c) ==
    IF HasChar(s, c) THEN CHOOSE i \in 1..Len(s) : s[i] = c /\ \A j \in 1..(i - 1) : s[j] # c
    ELSE 0

RECURSIVE DigitsVal(_)
DigitsVal(s) == IF s = <<>> THEN 0 ELSE DigitsVal(Front(s)) * 10 + DigitVal(s[Len(s)])

RECURSIVE NatToStr(_)
NatToStr(n) == IF n < 10 THEN <<DigitChars[n + 1]>>
               ELSE NatToStr(n \div 10) \o <<DigitChars[(n % 10) + 1]>>

\* str(n) as the f-strings of main.py:34-35 format an int
IntToStr(n) == IF n < 0 THEN <<"-">> \o NatToStr(0 - n) ELSE NatToStr(n)

\* all sequences over alphabet of length 0..n
RECURSIVE StringsUpTo(_, _)
StringsUpTo(alphabet, n) ==
    IF n = 0 THEN {<<>>}
    ELSE LET shorter == StringsUpTo(alphabet, n - 1)
         IN  shorter \cup {Append(s, c) : s \in shorter, c \in alphabet}

(* ---------------- integer binding (annotation `int`) ------------------ *)

Failed == [ok |-> FALSE, val |-> 0]

RECURSIVE TrimStart(_)
TrimStart(s) == IF s # <<>> /\ IsSpace(s[1]) THEN TrimStart(Tail(s)) ELSE s

RECURSIVE TrimEnd(_)
TrimEnd(s) == IF s # <<>> /\ IsSpace(s[Len(s)]) THEN TrimEnd(Front(s)) ELSE s

Trim(s) == TrimEnd(TrimStart(s))

AllDigits(s) == \A i \in 1..Len(s) : IsDigit(s[i])

\* ParseStr as a digits-only check would decide it: no sign is accepted
ParseStrDigitsOnly(s) ==
    IF s = <<>> \/ ~AllDigits(s) THEN Failed ELSE [ok |-> TRUE, val |-> DigitsVal(s)]

\* an optional sign followed by one or more decimal digits
ParseStr(s) ==
    LET signed == s # <<>> /\ s[1] \in {"+", "-"}
        body   == IF signed THEN Tail(s) ELSE s
    IN  IF body = <<>> \/ ~AllDigits(body) THEN Failed
        ELSE [ok  |-> TRUE,
              val |-> IF signed /\ s[1] = "-" THEN 0 - DigitsVal(body) ELSE DigitsVal(body)]

NoText == [some |-> FALSE, val |-> <<>>]

SomeText(s) == [some |-> TRUE, val |-> s]

\* leading zeros (and underscores between them) are dropped, the last zero kept
RECURSIVE SkipZeros(_, _)
SkipZeros(s, i) ==
    IF i > Len(s) THEN SomeText(<<s[Len(s)]>>)
    ELSE IF s[i] \in {"0", "_"} THEN SkipZeros(s, i + 1)
    ELSE IF IsDigit(s[i]) THEN SomeText(Drop(s, i - 1))
    ELSE IF s[i] = "." THEN SomeText(Drop(s, i - 2))
    ELSE NoText

StripLeadingZeros(s) ==
    IF s = <<>> THEN NoText
    ELSE IF s[1] = "0" THEN SkipZeros(s, 2)
    ELSE IF IsDigit(s[1]) THEN SomeText(s)
    ELSE NoText

\* StripDecimalZeros as a truncating conversion would decide it: any fraction
\* is dropped
StripDecimalAny(s) ==
    LET dot == IndexOf(s, ".")
    IN  IF dot = 0 THEN SomeText(s) ELSE SomeText(SubSeq(s, 1, dot - 1))

\* a fraction made of zeros only is dropped; any other fraction is refused
StripDecimalZeros(s) ==
    LET dot == IndexOf(s, ".")
    IN  IF dot = 0 THEN SomeText(s)
        ELSE IF \A i \in (dot + 1)..Len(s) : s[i] = "0" THEN SomeText(SubSeq(s, 1, dot - 1))
        ELSE NoText

RECURSIVE RemoveChar(_, _)
RemoveChar(s, c) ==
    IF s = <<>> THEN <<>>
    ELSE IF s[1] = c THEN RemoveChar(Tail(s), c)
    ELSE <<s[1]>> \o RemoveChar(Tail(s), c)

\* single underscores between digits are dropped
StripUnderscores(s) ==
    IF s = <<>> \/ s[1] = "_" \/ s[Len(s)] = "_" \/ ~HasChar(s, "_") \/ Contains(s, <<"_", "_">>)
    THEN NoText
    ELSE SomeText(RemoveChar(s, "_"))

CleanIntStr(s) ==
    LET unsigned == IF s # <<>> /\ s[1] = "+" THEN Tail(s) ELSE s
        nozeros  == StripLeadingZeros(unsigned)
        nofrac   == IF nozeros.some THEN StripDecimalZeros(nozeros.val) ELSE NoText
        nounder  == IF nofrac.some THEN StripUnderscores(nofrac.val) ELSE NoText
    IN  IF ~nofrac.some THEN NoText
        ELSE IF nounder.some THEN nounder
        ELSE IF Len(nofrac.val) = Len(s) THEN NoText
        ELSE nofrac

\* the lax string-to-int conversion applied to a parameter annotated `int`
StrAsInt(text) ==
    LET s       == Trim(text)
        direct  == ParseStr(s)
        cleaned == CleanIntStr(s)
    IN  IF direct.ok THEN direct
        ELSE IF cleaned.some THEN ParseStr(cleaned.val)
        ELSE Failed

(* ------------------- query string decoding ---------------------------- *)

\* the characters of codes 0..127; control characters and the grave accent are
\* written <NN>
Ascii ==
  <<
    "<00>", "<01>", "<02>", "<03>", "<04>", "<05>", "<06>", "<07>",
    "<08>", "<09>", "<0A>", "<0B>", "<0C>", "<0D>", "<0E>", "<0F>",
    "<10>", "<11>", "<12>", "<13>", "<14>", "<15>", "<16>", "<17>",
    "<18>", "<19>", "<1A>", "<1B>", "<1C>", "<1D>", "<1E>", "<1F>",
    " ", "!", "\"", "#", "$", "%", "&", "'",
    "(", ")", "*", "+", ",", "-", ".", "/",
    "0", "1", "2", "3", "4", "5", "6", "7",
    "8", "9", ":", ";", "<", "=", ">", "?",
    "@", "A", "B", "C", "D", "E", "F", "G",
    "H", "I", "J", "K", "L", "M", "N", "O",
    "P", "Q", "R", "S", "T", "U", "V", "W",
    "X", "Y", "Z", "[", "\\", "]", "^", "_",
    "<60>", "a", "b", "c", "d", "e", "f", "g",
    "h", "i", "j", "k", "l", "m", "n", "o",
    "p", "q", "r", "s", "t", "u", "v", "w",
    "x", "y", "z", "{", "|", "}", "~", "<7F>"
  >>

HexChars == <<"0", "1", "2", "3", "4", "5", "6", "7", "8", "9", "A", "B", "C", "D", "E", "F">>

LowerHexChars == <<"0", "1", "2", "3", "4", "5", "6", "7", "8", "9", "a", "b", "c", "d", "e", "f">>

IsHex(c) == \E i \in 1..16 : HexChars[i] = c \/ LowerHexChars[i] = c

HexVal(c) == (CHOOSE i \in 1..16 : HexChars[i] = c \/ LowerHexChars[i] = c) - 1

\* the character a decoded byte stands for; a lone byte above 127 is not valid
\* UTF-8 and is replaced
ByteChar(n) == IF n < 128 THEN Ascii[n + 1] ELSE "<FFFD>"

\* Unquote left out: the raw text is used as it is
UnquoteNothing(s) == s

\* percent-decoding: %XY with two hex digits becomes one character, any other
\* text is kept
RECURSIVE Unquote(_)
Unquote(s) ==
    IF s = <<>> THEN <<>>
    ELSE IF s[1] = "%" /\ Len(s) >= 3 /\ IsHex(s[2]) /\ IsHex(s[3])
         THEN <<ByteChar(HexVal(s[2]) * 16 + HexVal(s[3]))>> \o Unquote(Drop(s, 3))
    ELSE <<s[1]>> \o Unquote(Tail(s))

RECURSIVE PlusToSpace(_)
PlusToSpace(s) ==
    IF s = <<>> THEN <<>>
    ELSE <<IF s[1] = "+" THEN " " ELSE s[1]>> \o PlusToSpace(Tail(s))

\* s.split(c)
RECURSIVE Split(_, _)
Split(s, c) ==
    LET i == IndexOf(s, c)
    IN  IF i = 0 THEN <<s>>
        ELSE <<SubSeq(s, 1, i - 1)>> \o Split(Drop(s, i), c)

\* one name=value piece of the query string, decoded; a piece without "=" has
\* a blank value
DecodePair(piece) ==
    LET i     == IndexOf(piece, "=")
        name  == IF i = 0 THEN piece ELSE SubSeq(piece, 1, i - 1)
        value == IF i = 0 THEN <<>> ELSE Drop(piece, i)
    IN  <<Unquote(PlusToSpace(name)), Unquote(PlusToSpace(value))>>

RECURSIVE DecodePieces(_)
DecodePieces(pieces) ==
    IF pieces = <<>> THEN <<>>
    ELSE IF pieces[1] = <<>> THEN DecodePieces(Tail(pieces))
    ELSE <<DecodePair(pieces[1])>> \o DecodePieces(Tail(pieces))

\* the query string as an ordered list of decoded (name, value) pairs, blank
\* values kept
ParseQsl(raw) == DecodePieces(Split(raw, "&"))

\* the value bound to a scalar parameter: the last pair of that name
QueryGet(pairs, name) ==
    IF \E i \in 1..Len(pairs) : pairs[i][1] = name
    THEN LET last == CHOOSE i \in 1..Len(pairs) :
                         /\ pairs[i][1] = name
                         /\ \A j \in (i + 1)..Len(pairs) : pairs[j][1] # name
         IN  SomeText(pairs[last][2])
    ELSE NoText

(* ------------------------------ texts --------------------------------- *)

PathRoot == <<"/">>

PathTasksPrefix == <<"/", "t", "a", "s", "k", "s", "/">>

PathSearch == <<"/", "s", "e", "a", "r", "c", "h">>

PathOpenapi == <<"/", "o", "p", "e", "n", "a", "p", "i", ".", "j", "s", "o", "n">>

PathDocs == <<"/", "d", "o", "c", "s">>

PathDocsRedirect == <<"/", "d", "o", "c", "s", "/", "o", "a", "u", "t", "h", "2", "-", "r", "e", "d", "i", "r", "e", "c", "t">>

PathRedoc == <<"/", "r", "e", "d", "o", "c">>

NameQ == <<"q">>

NameLimit == <<"l", "i", "m", "i", "t">>

NameOffset == <<"o", "f", "f", "s", "e", "t">>

NameStatus == <<"s", "t", "a", "t", "u", "s">>

TextTaskHash == <<"T", "a", "s", "k", " ", "#">>

TextThisIsTask == <<"T", "h", "i", "s", " ", "i", "s", " ", "t", "a", "s", "k", " ", "n", "u", "m", "b", "e", "r", " ">>

TextPending == <<"p", "e", "n", "d", "i", "n", "g">>

TextInProgress == <<"i", "n", "_", "p", "r", "o", "g", "r", "e", "s", "s">>

TextTaskMatching == <<"T", "a", "s", "k", " ", "m", "a", "t", "c", "h", "i", "n", "g", " ", "'">>

TextAnotherTask == <<"A", "n", "o", "t", "h", "e", "r", " ", "t", "a", "s", "k", " ", "f", "o", "r", " ", "'">>

TextQuote == <<"'">>

(* ----------------------------- requests ------------------------------ *)

\* what a client wrote into a query string with BuildQuery, and the text it
\* percent-encoded into q if it did; the server never reads it, the properties do
Written(q, limit, offset, status) ==
    [built |-> TRUE, q |-> q, limit |-> limit, offset |-> offset, status |-> status,
     text |-> NoText]

NotWritten ==
    [built |-> FALSE, q |-> NoText, limit |-> NoText, offset |-> NoText, status |-> NoText,
     text |-> NoText]

\* a request on the wire: method, path and raw query string
Request(method, path, query) ==
    [method |-> method, path |-> path, query |-> query, sent |-> NotWritten]

NoRequest == Request("", <<>>, <<>>)

Ints == (0 - MaxInt)..MaxInt

\* characters of the literals placed after /tasks/
LitAlphabet == {"0", "1", "-", "+", ".", "_", " ", "a", "/"}

Literals == StringsUpTo(LitAlphabet, MaxLitLen) \cup {IntToStr(n) : n \in Ints}

TaskPath(lit) == PathTasksPrefix \o lit

TaskRequest(lit) == Request("GET", TaskPath(lit), <<>>)

\* characters of the raw q literals: plain letters, the characters the query
\* string decoding treats specially, and two hex digits
QAlphabet == {"x", "X", "+", "&", "%", "2", "0"}

QLiterals == StringsUpTo(QAlphabet, MaxQLen)

RECURSIVE Join(_, _)
Join(pieces, sep) ==
    IF pieces = <<>> THEN <<>>
    ELSE IF Len(pieces) = 1 THEN pieces[1]
    ELSE pieces[1] \o sep \o Join(Tail(pieces), sep)

Piece(name, opt) == IF opt.some THEN <<name \o <<"=">> \o opt.val>> ELSE <<>>

\* the query string a client writes for the given optional raw values
BuildQuery(q, limit, offset, status) ==
    Join(Piece(NameQ, q) \o Piece(NameLimit, limit) \o Piece(NameOffset, offset)
             \o Piece(NameStatus, status), <<"&">>)

SearchRequest(q, limit, offset, status) ==
    [Request("GET", PathSearch, BuildQuery(q, limit, offset, status))
        EXCEPT !.sent = Written(q, limit, offset, status)]

\* percent-encoding of a text: letters are kept, every other character is
\* written %XY
RECURSIVE Quote(_)
Quote(s) ==
    IF s = <<>> THEN <<>>
    ELSE (CASE s[1] = " " -> <<"%", "2", "0">>
            [] s[1] = "+" -> <<"%", "2", "B">>
            [] s[1] = "%" -> <<"%", "2", "5">>
            [] s[1] = "&" -> <<"%", "2", "6">>
            [] OTHER      -> <<s[1]>>) \o Quote(Tail(s))

\* texts a client sends percent-encoded
EncodableTexts == StringsUpTo({"x", "X", " ", "+", "%", "&"}, MaxQLen)

\* GET /search?q=<the percent-encoding of text>
EncodedSearchRequest(text) ==
    [SearchRequest(SomeText(Quote(text)), NoText, NoText, NoText)
        EXCEPT !.sent.text = SomeText(text)]

\* raw values offered for limit and offset: absent, every integer of Ints, and
\* texts that are not integers
RawInts == {NoText} \cup {SomeText(IntToStr(n)) : n \in Ints}
               \cup {SomeText(<<"x">>), SomeText(<<"1", ".", "5">>)}

RawStatuses == {NoText, SomeText(<<>>), SomeText(<<"X">>)}

RawQs == {NoText, SomeText(<<>>), SomeText(<<"x">>)}

OtherRequests ==
    {Request("GET", p, <<>>) :
        p \in {PathRoot, PathSearch \o <<"/">>, Front(PathTasksPrefix), PathDocs,
               PathDocs \o <<"/">>, PathOpenapi, PathRedoc, PathDocsRedirect, <<"/", "x">>}}
    \cup {Request("POST", p, <<>>) :
        p \in {PathRoot, TaskPath(<<"1">>), PathSearch, PathSearch \o <<"/">>, <<"/", "x">>}}
    \cup {Request("GET", PathSearch, <<"q", "=", "x", "&", "q", "=", "X">>),
          Request("GET", PathSearch, <<"z", "=", "1">>),
          Request("GET", PathSearch, <<"q">>)}

AllRequests ==
    {TaskRequest(lit) : lit \in Literals}
    \cup {SearchRequest(SomeText(q), NoText, NoText, NoText) : q \in QLiterals}
    \cup {EncodedSearchRequest(t) : t \in EncodableTexts}
    \cup {SearchRequest(q, l, o, st) : q \in RawQs, l \in RawInts, o \in RawInts, st \in RawStatuses}
    \cup OtherRequests

\* the requests two clients send concurrently
SampleRequests ==
    {TaskRequest(<<"1">>), TaskRequest(<<"a">>), Request("GET", PathRoot, <<>>),
     SearchRequest(SomeText(<<"x">>), NoText, NoText, NoText),
     SearchRequest(NoText, SomeText(<<"1">>), NoText, NoText),
     Request("GET", PathSearch \o <<"/">>, <<>>), Request("GET", <<"/", "x">>, <<>>)}

Requests(w) == IF w = "single" THEN AllRequests ELSE SampleRequests

Conns == {"c1", "c2"}

Clients(w) == IF w = "single" THEN {"c1"} ELSE Conns

(* ------------------------------- state --------------------------------- *)

VARIABLES
    workload,  \* "single": one client, every request; "concurrent": two clients
    phase,     \* per connection: idle, received, matched, bound, done
    req,       \* per connection: the request being served
    route,     \* per connection: the name of the matched route
    values,    \* per connection: the arguments bound for the handler
    resp,      \* per connection: the response, once phase is done
    ran,       \* per connection: the handler body has run for this request
    served     \* number of responses sent so far

vars == <<workload, phase, req, route, values, resp, ran, served>>

(* ------------------------------ router -------------------------------- *)

\* the routes in registration order: the documentation routes the application
\* object adds, then the three decorated handlers
RouteNames == <<"openapi", "docs", "docs_redirect", "redoc", "root", "task", "search">>

\* the text of the {task_id} segment of a path under /tasks/
TaskSegment(path) == Drop(path, Len(PathTasksPrefix))

\* PathMatches with a {task_id} that also matches the empty segment
PathMatchesEmptySegment(name, path) ==
    CASE name = "openapi"       -> path = PathOpenapi
      [] name = "docs"          -> path = PathDocs
      [] name = "docs_redirect" -> path = PathDocsRedirect
      [] name = "redoc"         -> path = PathRedoc
      [] name = "root"          -> path = PathRoot
      [] name = "task"          -> /\ HasPrefix(path, PathTasksPrefix)
                                   /\ ~HasChar(TaskSegment(path), "/")
      [] name = "search"        -> path = PathSearch

\* a route's path pattern; {task_id} matches one or more characters other than "/"
PathMatches(name, path) ==
    CASE name = "openapi"       -> path = PathOpenapi
      [] name = "docs"          -> path = PathDocs
      [] name = "docs_redirect" -> path = PathDocsRedirect
      [] name = "redoc"         -> path = PathRedoc
      [] name = "root"          -> path = PathRoot
      [] name = "task"          -> /\ HasPrefix(path, PathTasksPrefix)
                                   /\ TaskSegment(path) # <<>>
                                   /\ ~HasChar(TaskSegment(path), "/")
      [] name = "search"        -> path = PathSearch

\* every route is declared with @app.get
Match(name, method, path) ==
    IF ~PathMatches(name, path) THEN "none"
    ELSE IF method = "GET" THEN "full"
    ELSE "partial"

RECURSIVE RStrip(_, _)
RStrip(s, c) == IF s # <<>> /\ s[Len(s)] = c THEN RStrip(Front(s), c) ELSE s

\* the path the router tries when nothing matched: without its trailing
\* slashes, or with one added
Redirected(path) ==
    IF path # <<>> /\ path[Len(path)] = "/" THEN RStrip(path, "/") ELSE path \o <<"/">>

Router(method, path) ==
    LET full    == {i \in 1..Len(RouteNames) : Match(RouteNames[i], method, path) = "full"}
        partial == {i \in 1..Len(RouteNames) : Match(RouteNames[i], method, path) = "partial"}
        first(S) == CHOOSE i \in S : \A j \in S : i <= j
    IN  IF full # {} THEN [kind |-> "endpoint", name |-> RouteNames[first(full)]]
        ELSE IF partial # {} THEN [kind |-> "method_not_allowed", name |-> RouteNames[first(partial)]]
        ELSE IF /\ path # PathRoot
                /\ \E i \in 1..Len(RouteNames) :
                       Match(RouteNames[i], method, Redirected(path)) # "none"
             THEN [kind |-> "redirect", name |-> ""]
        ELSE [kind |-> "not_found", name |-> ""]

(* --------------------------- parameter binding ------------------------- *)

DefaultLimit == 10

DefaultOffset == 0

Unbound == [task_id |-> 0, q |-> <<>>, limit |-> 0, offset |-> 0, status |-> NoText]

IntParsingError(where, name, input) ==
    [type  |-> "int_parsing",
     loc   |-> <<where, name>>,
     msg   |-> "Input should be a valid integer, unable to parse string as an integer",
     input |-> SomeText(input)]

MissingError(where, name) ==
    [type |-> "missing", loc |-> <<where, name>>, msg |-> "Field required", input |-> NoText]

\* get_task_by_id(task_id: int): the path segment is converted to int
BindTask(path) ==
    LET parsed == StrAsInt(TaskSegment(path))
    IN  [errors |-> IF parsed.ok THEN <<>>
                    ELSE <<IntParsingError("path", "task_id", TaskSegment(path))>>,
         values |-> [Unbound EXCEPT !.task_id = parsed.val]]

\* BindInt without the declared default: an absent parameter is bound to 0
BindIntNoDefault(opt, name, default) ==
    IF ~opt.some THEN [errors |-> <<>>, val |-> 0]
    ELSE LET parsed == StrAsInt(opt.val)
         IN  [errors |-> IF parsed.ok THEN <<>>
                         ELSE <<IntParsingError("query", name, opt.val)>>,
              val    |-> parsed.val]

\* BindInt with a lower bound of 0 on the value, as a ge=0 constraint that
\* clamps would give
BindIntClamped(opt, name, default) ==
    IF ~opt.some THEN [errors |-> <<>>, val |-> default]
    ELSE LET parsed == StrAsInt(opt.val)
         IN  [errors |-> IF parsed.ok THEN <<>>
                         ELSE <<IntParsingError("query", name, opt.val)>>,
              val    |-> IF parsed.val < 0 THEN 0 ELSE parsed.val]

\* an optional int parameter: its default when absent, else the converted text
BindInt(opt, name, default) ==
    IF ~opt.some THEN [errors |-> <<>>, val |-> default]
    ELSE LET parsed == StrAsInt(opt.val)
         IN  [errors |-> IF parsed.ok THEN <<>>
                         ELSE <<IntParsingError("query", name, opt.val)>>,
              val    |-> parsed.val]

\* BindSearch with q bound after the other parameters, so that its error is
\* reported last
BindSearchQLast(query) ==
    LET pairs  == ParseQsl(query)
        q      == QueryGet(pairs, NameQ)
        limit  == BindInt(QueryGet(pairs, NameLimit), "limit", DefaultLimit)
        offset == BindInt(QueryGet(pairs, NameOffset), "offset", DefaultOffset)
        status == QueryGet(pairs, NameStatus)
    IN  [errors |-> limit.errors \o offset.errors
                        \o (IF q.some THEN <<>> ELSE <<MissingError("query", "q")>>),
         values |-> [task_id |-> 0, q |-> q.val, limit |-> limit.val,
                     offset |-> offset.val, status |-> status]]

\* search_tasks(q: str, limit: int = 10, offset: int = 0, status: str | None = None):
\* the parameters are bound in the order they are declared, errors collected
BindSearch(query) ==
    LET pairs  == ParseQsl(query)
        q      == QueryGet(pairs, NameQ)
        limit  == BindInt(QueryGet(pairs, NameLimit), "limit", DefaultLimit)
        offset == BindInt(QueryGet(pairs, NameOffset), "offset", DefaultOffset)
        status == QueryGet(pairs, NameStatus)
    IN  [errors |-> (IF q.some THEN <<>> ELSE <<MissingError("query", "q")>>)
                        \o limit.errors \o offset.errors,
         values |-> [task_id |-> 0, q |-> q.val, limit |-> limit.val,
                     offset |-> offset.val, status |-> status]]

BindParams(name, request) ==
    CASE name = "task"   -> BindTask(request.path)
      [] name = "search" -> BindSearch(request.query)
      [] OTHER           -> [errors |-> <<>>, values |-> Unbound]

(* ------------------------------ handlers ------------------------------- *)

TotalResults == 42

\* Python's `a or b` on an optional text: None and "" are both falsy
Or(opt, default) == IF opt.some /\ opt.val # <<>> THEN opt.val ELSE default

get_welcome_message ==
    [message |-> "Welcome to the Task Management API!",
     version |-> "1.0.0",
     docs    |-> "/docs",
     status  |-> "operational"]

\* get_task_by_id with a creation stamp taken from a request counter
get_task_by_id_stamped(task_id) ==
    [task_id     |-> task_id,
     title       |-> TextTaskHash \o IntToStr(task_id),
     description |-> TextThisIsTask \o IntToStr(task_id),
     status      |-> TextPending,
     priority    |-> "medium",
     created_at  |-> IF served = 0 THEN "2026-01-09T00:00:00Z" ELSE "2026-01-09T00:00:01Z"]

get_task_by_id(task_id) ==
    [task_id     |-> task_id,
     title       |-> TextTaskHash \o IntToStr(task_id),
     description |-> TextThisIsTask \o IntToStr(task_id),
     status      |-> TextPending,
     priority    |-> "medium",
     created_at  |-> "2026-01-09T00:00:00Z"]

\* search_tasks with the result ids counted from the limit instead of the offset
search_tasks_ids_from_limit(q, limit, offset, status) ==
    [query         |-> q,
     filters       |-> [status |-> status, limit |-> limit, offset |-> offset],
     total_results |-> TotalResults,
     results       |->
        << [task_id         |-> limit + 1,
            title           |-> TextTaskMatching \o q \o TextQuote,
            status          |-> Or(status, TextPending),
            relevance_score |-> "0.95"],
           [task_id         |-> limit + 2,
            title           |-> TextAnotherTask \o q \o TextQuote,
            status          |-> Or(status, TextInProgress),
            relevance_score |-> "0.87"] >>]

search_tasks(q, limit, offset, status) ==
    [query         |-> q,
     filters       |-> [status |-> status, limit |-> limit, offset |-> offset],
     total_results |-> TotalResults,
     results       |->
        << [task_id         |-> offset + 1,
            title           |-> TextTaskMatching \o q \o TextQuote,
            status          |-> Or(status, TextPending),
            relevance_score |-> "0.95"],
           [task_id         |-> offset + 2,
            title           |-> TextAnotherTask \o q \o TextQuote,
            status          |-> Or(status, TextInProgress),
            relevance_score |-> "0.87"] >>]

\* the body the matched route's handler returns for the bound arguments
Endpoint(name, v) ==
    CASE name = "root"   -> get_welcome_message
      [] name = "task"   -> get_task_by_id(v.task_id)
      [] name = "search" -> search_tasks(v.q, v.limit, v.offset, v.status)
      [] OTHER           -> [page |-> name]

Response(status, body) == [status |-> status, body |-> body]

NoResponse == Response(0, [none |-> TRUE])

(* ------------------------------ actions -------------------------------- *)

Idle ==
    /\ phase = [c \in Conns |-> "idle"]
    /\ req = [c \in Conns |-> NoRequest]
    /\ route = [c \in Conns |-> ""]
    /\ values = [c \in Conns |-> Unbound]
    /\ resp = [c \in Conns |-> NoResponse]
    /\ ran = [c \in Conns |-> FALSE]
    /\ served = 0

Init == workload = "single" /\ Idle

InitConcurrent == workload = "concurrent" /\ Idle

\* a client sends a request on an idle connection
Receive(c) ==
    /\ c \in Clients(workload)
    /\ phase[c] = "idle"
    /\ served < MaxServed
    /\ \E r \in Requests(workload) : req' = [req EXCEPT ![c] = r]
    /\ phase' = [phase EXCEPT ![c] = "received"]
    /\ UNCHANGED <<workload, route, values, resp, ran, served>>

\* the router picks the route, or answers itself
Route(c) ==
    /\ phase[c] = "received"
    /\ LET m == Router(req[c].method, req[c].path)
       IN  CASE m.kind = "endpoint" ->
                  /\ route' = [route EXCEPT ![c] = m.name]
                  /\ phase' = [phase EXCEPT ![c] = "matched"]
                  /\ UNCHANGED resp
             [] m.kind = "method_not_allowed" ->
                  /\ resp' = [resp EXCEPT ![c] = Response(405, [detail |-> "Method Not Allowed"])]
                  /\ phase' = [phase EXCEPT ![c] = "done"]
                  /\ UNCHANGED route
             [] m.kind = "redirect" ->
                  /\ resp' = [resp EXCEPT ![c] = Response(307, [location |-> Redirected(req[c].path)])]
                  /\ phase' = [phase EXCEPT ![c] = "done"]
                  /\ UNCHANGED route
             [] m.kind = "not_found" ->
                  /\ resp' = [resp EXCEPT ![c] = Response(404, [detail |-> "Not Found"])]
                  /\ phase' = [phase EXCEPT ![c] = "done"]
                  /\ UNCHANGED route
    /\ UNCHANGED <<workload, req, values, ran, served>>

\* Bind with the errors dropped: the handler is called with what was bound
BindIgnoringErrors(c) ==
    /\ phase[c] = "matched"
    /\ values' = [values EXCEPT ![c] = BindParams(route[c], req[c]).values]
    /\ phase' = [phase EXCEPT ![c] = "bound"]
    /\ UNCHANGED <<workload, req, route, resp, ran, served>>

\* Bind with the conversion failure left unhandled: the server answers 500
BindUnhandled(c) ==
    /\ phase[c] = "matched"
    /\ LET b == BindParams(route[c], req[c])
       IN  IF b.errors # <<>>
           THEN /\ resp' = [resp EXCEPT ![c] = Response(500, [detail |-> b.errors])]
                /\ phase' = [phase EXCEPT ![c] = "done"]
                /\ UNCHANGED values
           ELSE /\ values' = [values EXCEPT ![c] = b.values]
                /\ phase' = [phase EXCEPT ![c] = "bound"]
                /\ UNCHANGED resp
    /\ UNCHANGED <<workload, req, route, ran, served>>

\* the arguments of the matched handler are bound; a failure is answered 422
Bind(c) ==
    /\ phase[c] = "matched"
    /\ LET b == BindParams(route[c], req[c])
       IN  IF b.errors # <<>>
           THEN /\ resp' = [resp EXCEPT ![c] = Response(422, [detail |-> b.errors])]
                /\ phase' = [phase EXCEPT ![c] = "done"]
                /\ UNCHANGED values
           ELSE /\ values' = [values EXCEPT ![c] = b.values]
                /\ phase' = [phase EXCEPT ![c] = "bound"]
                /\ UNCHANGED resp
    /\ UNCHANGED <<workload, req, route, ran, served>>

\* the handler body runs and its return value is the 200 response
Handle(c) ==
    /\ phase[c] = "bound"
    /\ resp' = [resp EXCEPT ![c] = Response(200, Endpoint(route[c], values[c]))]
    /\ ran' = [ran EXCEPT ![c] = TRUE]
    /\ phase' = [phase EXCEPT ![c] = "done"]
    /\ UNCHANGED <<workload, req, route, values, served>>

\* the response is written and the connection is idle again
Send(c) ==
    /\ phase[c] = "done"
    /\ phase' = [phase EXCEPT ![c] = "idle"]
    /\ req' = [req EXCEPT ![c] = NoRequest]
    /\ route' = [route EXCEPT ![c] = ""]
    /\ values' = [values EXCEPT ![c] = Unbound]
    /\ resp' = [resp EXCEPT ![c] = NoResponse]
    /\ ran' = [ran EXCEPT ![c] = FALSE]
    /\ served' = served + 1
    /\ UNCHANGED workload

Next ==
    \E c \in Conns :
        \/ Receive(c)
        \/ Route(c)
        \/ Bind(c)
        \/ Handle(c)
        \/ Send(c)

Spec == Init /\ [][Next]_vars

SpecConcurrent == InitConcurrent /\ [][Next]_vars

(* ----------------------------- properties ----------------------------- *)

Done(c) == phase[c] = "done"

\* the raw text of every integer of Ints, as a client writes it
IntText == [n \in Ints |-> IntToStr(n)]

\* the request is GET /tasks/{lit}
IsTaskRequest(r, lit) == r.method = "GET" /\ r.path = TaskPath(lit) /\ r.query = <<>>

\* the request is a GET /search whose query string was written from optional values
IsSearch(r) == r.method = "GET" /\ r.path = PathSearch /\ r.sent.built

\* C1: for every integer n, negative and zero included, GET /tasks/{n} is
\* answered 200 with task_id n, title "Task #n", description "This is task
\* number n", status "pending", priority "medium" and the constant created_at.
C1_TaskEchoesEveryInteger ==
    \A c \in Conns : \A n \in Ints :
        (Done(c) /\ IsTaskRequest(req[c], IntText[n])) =>
            resp[c] = Response(200,
                         [task_id     |-> n,
                          title       |-> TextTaskHash \o IntText[n],
                          description |-> TextThisIsTask \o IntText[n],
                          status      |-> TextPending,
                          priority    |-> "medium",
                          created_at  |-> "2026-01-09T00:00:00Z"])

\* a negative two-digit id has been answered 200
C1_Witness ==
    \E c \in Conns :
        /\ Done(c)
        /\ IsTaskRequest(req[c], <<"-", "1", "0">>)
        /\ resp[c].status = 200
        /\ resp[c].body.task_id = -10

\* a literal that reads as an integer: an optional sign and decimal digits
IsIntegerLiteral(lit) ==
    LET body == IF lit # <<>> /\ lit[1] \in {"+", "-"} THEN Tail(lit) ELSE lit
    IN  body # <<>> /\ \A i \in 1..Len(body) : IsDigit(body[i])

\* the first detail of a 422 response is an int_parsing error located at task_id
IsTaskIdParsingError(r) ==
    /\ r.status = 422
    /\ Len(r.body.detail) >= 1
    /\ r.body.detail[1].type = "int_parsing"
    /\ \E i \in 1..Len(r.body.detail[1].loc) : r.body.detail[1].loc[i] = "task_id"

ClearlyNotInteger(lit) ==
    LET t   == Trim(lit)
        dot == IndexOf(t, ".")
    IN  /\ lit # <<>>
        /\ ~HasChar(lit, "/")
        /\ \/ t = <<>>
           \/ \E i \in 1..Len(t) : ~IsDigit(t[i]) /\ t[i] \notin {"+", "-", "_", ".", " "}
           \/ \E i \in 2..Len(t) : t[i] \in {"+", "-"}
           \/ dot # 0 /\ \E i \in (dot + 1)..Len(t) : t[i] # "0"

C3_MissingQReportedFirst ==
    \A c \in Conns :
        (Done(c) /\ IsSearch(req[c]) /\ ~req[c].sent.q.some) =>
            /\ resp[c].status = 422
            /\ Len(resp[c].body.detail) >= 1
            /\ resp[c].body.detail[1].type = "missing"
            /\ \E i \in 1..Len(resp[c].body.detail[1].loc) : resp[c].body.detail[1].loc[i] = "q"

\* a request without q and with a non-integer limit and offset has been answered
C3_Witness ==
    \E c \in Conns :
        /\ Done(c)
        /\ IsSearch(req[c])
        /\ ~req[c].sent.q.some
        /\ req[c].sent.limit = SomeText(<<"x">>)
        /\ req[c].sent.offset = SomeText(<<"1", ".", "5">>)
        /\ req[c].sent.status.some
        /\ Len(resp[c].body.detail) = 3

C5_ResultsWithinLimit ==
    \A c \in Conns :
        (Done(c) /\ IsSearch(req[c]) /\ resp[c].status = 200) =>
            Len(resp[c].body.results) <= resp[c].body.filters.limit

\* the optional raw value is absent or the text of an integer of Ints
IsIntOrAbsent(opt) == ~opt.some \/ \E n \in Ints : opt.val = IntText[n]

\* C6: a GET /search that supplies q and omits limit, offset and status is
\* answered 200 with filters.limit 10, filters.offset 0 and filters.status
\* null, and each omitted parameter takes its default whichever of the others
\* are supplied.
C6_OmittedParametersTakeDefaults ==
    \A c \in Conns :
        (Done(c) /\ IsSearch(req[c])) =>
            /\ (/\ req[c].sent.q.some
                /\ ~req[c].sent.limit.some
                /\ ~req[c].sent.offset.some
                /\ ~req[c].sent.status.some) => resp[c].status = 200
            /\ resp[c].status = 200 =>
                   /\ ~req[c].sent.limit.some => resp[c].body.filters.limit = 10
                   /\ ~req[c].sent.offset.some => resp[c].body.filters.offset = 0
                   /\ ~req[c].sent.status.some => resp[c].body.filters.status = NoText

\* a search with an offset and a status but no limit has been answered 200
C6_Witness ==
    \E c \in Conns :
        /\ Done(c)
        /\ IsSearch(req[c])
        /\ ~req[c].sent.limit.some
        /\ req[c].sent.offset = SomeText(<<"7">>)
        /\ req[c].sent.status.some
        /\ resp[c].status = 200
        /\ resp[c].body.filters.limit = 10

\* the request is GET /search?q=<literal> and nothing else
IsQueryOnly(r) ==
    /\ IsSearch(r)
    /\ r.sent.q.some
    /\ ~r.sent.limit.some
    /\ ~r.sent.offset.some
    /\ ~r.sent.status.some

\* the response is 200, echoes text as its query and every title contains it
Reflects(r, text) ==
    /\ r.status = 200
    /\ r.body.query = text
    /\ \A i \in 1..Len(r.body.results) : Contains(r.body.results[i].title, text)

\* C7 as stated: for every string q, GET /search?q=<q> is answered 200 with
\* body.query equal to q verbatim and q contained in every result title.
C7_EveryLiteralReflected ==
    \A c \in Conns :
        (Done(c) /\ IsQueryOnly(req[c])) => Reflects(resp[c], req[c].sent.q.val)

IsAlnum(c) == IsDigit(c) \/ \E i \in (66..91) \cup (98..123) : Ascii[i] = c

\* C7 amended: for every string q, GET /search with q percent-encoded in the
\* query string is answered 200 with body.query equal to q verbatim and q
\* contained in every result title; a literal written unencoded is reflected
\* verbatim when it is made of letters and digits only.
C7_EncodedTextReflected ==
    \A c \in Conns :
        (Done(c) /\ IsQueryOnly(req[c])) =>
            /\ (\A i \in 1..Len(req[c].sent.q.val) : IsAlnum(req[c].sent.q.val[i]))
                   => Reflects(resp[c], req[c].sent.q.val)
            /\ req[c].sent.text.some => Reflects(resp[c], req[c].sent.text.val)

\* the text "+ %" sent percent-encoded has been echoed
C7_Witness ==
    \E c \in Conns :
        /\ Done(c)
        /\ IsQueryOnly(req[c])
        /\ req[c].sent.text = SomeText(<<"+", " ", "%">>)
        /\ req[c].sent.q.val = <<"%", "2", "B", "%", "2", "0", "%", "2", "5">>
        /\ resp[c].status = 200
        /\ resp[c].body.query = <<"+", " ", "%">>

\* C8: for every integer limit and offset, negative and zero included, a GET
\* /search with q is answered 200 and echoes the supplied values unchanged in
\* filters.limit and filters.offset.
C8_IntegersEchoedUnchanged ==
    \A c \in Conns :
        (/\ Done(c)
         /\ IsSearch(req[c])
         /\ req[c].sent.q.some
         /\ IsIntOrAbsent(req[c].sent.limit)
         /\ IsIntOrAbsent(req[c].sent.offset)) =>
            /\ resp[c].status = 200
            /\ \A n \in Ints :
                   /\ req[c].sent.limit = SomeText(IntText[n]) => resp[c].body.filters.limit = n
                   /\ req[c].sent.offset = SomeText(IntText[n]) => resp[c].body.filters.offset = n

\* a search with a negative limit and a zero offset has been answered 200
C8_Witness ==
    \E c \in Conns :
        /\ Done(c)
        /\ IsSearch(req[c])
        /\ req[c].sent.limit = SomeText(<<"-", "1", "0">>)
        /\ req[c].sent.offset = SomeText(<<"0">>)
        /\ resp[c].status = 200
        /\ resp[c].body.filters.limit = -10

\* C9: two requests with the same method, path and query string receive the
\* same status and the same body, whatever was served before or between them
\* and whatever is in flight on the other connection.
C9_SameRequestSameResponse ==
    \A c1 \in Conns : \A c2 \in Conns :
        (Done(c1) /\ Done(c2) /\ req[c1] = req[c2]) => resp[c1] = resp[c2]

\* both connections hold the answer to the same task request, one of them
\* computed after another response had been sent
C9_Witness ==
    /\ Done("c1")
    /\ Done("c2")
    /\ req["c1"] = req["c2"]
    /\ req["c1"] = TaskRequest(<<"1">>)
    /\ resp["c1"].status = 200
    /\ served >= 1

\* C10 as stated: every request ends in 200, 422 or 404.
C10_OnlyThreeOutcomes ==
    \A c \in Conns : Done(c) => resp[c].status \in {200, 422, 404}

\* C10 amended: every GET request ends in 200, 422, 404 or 307, the redirect
\* the router answers when the path matches a declared route only with its
\* trailing slashes removed; a request with another method to a declared path
\* ends in 405; no request ends in a 5xx response.
C10_NoServerError ==
    \A c \in Conns :
        Done(c) =>
            /\ resp[c].status \in {200, 422, 404, 307, 405}
            /\ resp[c].status = 405 => req[c].method # "GET"
            /\ resp[c].status = 307 =>
                   /\ req[c].path[Len(req[c].path)] = "/"
                   /\ resp[c].body.location = RStrip(req[c].path, "/")

\* GET /search/ has been answered with the redirect
C10_Witness ==
    \E c \in Conns :
        /\ Done(c)
        /\ req[c].method = "GET"
        /\ req[c].path = PathSearch \o <<"/">>
        /\ resp[c].status = 307

\* the parameters of the request fail binding: a task id that is clearly not
\* an integer, a search without q, or a search whose limit or offset is clearly
\* not an integer
FailsBinding(r) ==
    \/ /\ r.method = "GET"
       /\ r.query = <<>>
       /\ HasPrefix(r.path, PathTasksPrefix)
       /\ ClearlyNotInteger(TaskSegment(r.path))
    \/ /\ IsSearch(r)
       /\ \/ ~r.sent.q.some
          \/ r.sent.limit.some /\ ClearlyNotInteger(r.sent.limit.val)
          \/ r.sent.offset.some /\ ClearlyNotInteger(r.sent.offset.val)

\* the response is a 422 whose body holds a non-empty detail array
IsValidationFailure(r) == r.status = 422 /\ Len(r.body.detail) >= 1

IsDeclaredPath(path) ==
    \/ path \in {PathRoot, PathSearch, PathOpenapi, PathDocs, PathDocsRedirect, PathRedoc}
    \/ /\ HasPrefix(path, PathTasksPrefix)
       /\ Len(path) > Len(PathTasksPrefix)
       /\ \A i \in (Len(PathTasksPrefix) + 1)..Len(path) : path[i] # "/"

\* C12 as stated: every GET whose path matches none of the declared routes is
\* answered 404, GET /tasks/ among them.
C12_EveryUnmatchedPathNotFound ==
    \A c \in Conns :
        (Done(c) /\ req[c].method = "GET" /\ ~IsDeclaredPath(req[c].path)) =>
            resp[c].status = 404

\* C12 (amended): a GET whose path matches none of the declared routes, and
\* matches none once its trailing slashes are removed, is answered 404; a GET
\* whose path matches a declared route only once its trailing slashes are
\* removed is answered 307. GET /tasks/ is answered 404, never 422.
C12_UnmatchedPathNotFoundUnlessRedirected ==
    \A c \in Conns :
        (Done(c) /\ req[c].method = "GET" /\ ~IsDeclaredPath(req[c].path)) =>
            /\ ~IsDeclaredPath(RStrip(req[c].path, "/")) => resp[c].status = 404
            /\ IsDeclaredPath(RStrip(req[c].path, "/")) => resp[c].status = 307
            /\ req[c].path = PathTasksPrefix =>
                   /\ resp[c].status = 404
                   /\ ~ran[c]

\* GET /tasks/ has been answered 404
C12_Witness ==
    \E c \in Conns :
        /\ Done(c)
        /\ req[c].method = "GET"
        /\ req[c].path = PathTasksPrefix
        /\ req[c].query = <<>>
        /\ resp[c].status = 404

\* C13 as stated: in every successful GET /search response the result
\* statuses agree with the status filter: without a status parameter the two
\* results are "pending" and "in_progress"; with a status parameter of any
\* value, the empty string included, filters.status is that value and both
\* results carry it.
C13_StatusesAgreeWithFilter ==
    \A c \in Conns :
        (Done(c) /\ IsSearch(req[c]) /\ resp[c].status = 200) =>
            LET status  == req[c].sent.status
                results == resp[c].body.results
            IN  /\ Len(results) = 2
                /\ ~status.some =>
                       /\ results[1].status = TextPending
                       /\ results[2].status = TextInProgress
                /\ status.some =>
                       /\ resp[c].body.filters.status = SomeText(status.val)
                       /\ results[1].status = status.val
                       /\ results[2].status = status.val

====
